---- MODULE Spec2Model ----
(***************************************************************************)
(* Model of entry.py: capture a .NET dump in a Kubernetes pod and copy it  *)
(* to the local directory.  The script is one sequential run; every action *)
(* below is one stage of it, delimited by the external commands it issues. *)
(***************************************************************************)
EXTENDS Integers, Sequences, FiniteSets, TLC

\* ------------------------------------------------------------------------
\* Bounds of the model
\* ------------------------------------------------------------------------
\* longest remote dump file, in bytes
MaxLen == 4
\* largest chunk_size argument of kubectl_chunked_cp, in bytes
MaxChunk == 3
\* most completion polls followed in one run
MaxPolls == 3
\* most chunk reads followed in one run
MaxReads == 5

\* Python's None for the optional numbers uid / gid
None == -1
\* Python's None / empty string for the optional names
NoName == ""

\* the byte values the remote file is made of
ByteVals == {0, 77, 255}
\* non-zero exit codes an external command ends with
FailCodes == {1, 126}

Min(a, b) == IF a < b THEN a ELSE b

\* all sequences over S of length 0..n
RECURSIVE SeqsUpTo(_, _)
SeqsUpTo(S, n) ==
    IF n = 0 THEN {<<>>}
    ELSE LET shorter == SeqsUpTo(S, n - 1)
         IN  shorter \cup {Append(s, x) : s \in {t \in shorter : Len(t) = n - 1}, x \in S}

\* ------------------------------------------------------------------------
\* base64: the remote `base64` command and the local base64.b64decode
\* ------------------------------------------------------------------------
\* the padding character '=' and the line feed, next to the sextets 0..63
Pad == 64
LF == 65
\* width of an output line of the base64 command
WrapCols == 76

\* the four characters that encode a group of one, two or three bytes
B64Group(g) ==
    LET b1 == g[1]
        b2 == IF Len(g) >= 2 THEN g[2] ELSE 0
        b3 == IF Len(g) >= 3 THEN g[3] ELSE 0
        n  == b1 * 65536 + b2 * 256 + b3
    IN  << n \div 262144,
           (n \div 4096) % 64,
           IF Len(g) >= 2 THEN (n \div 64) % 64 ELSE Pad,
           IF Len(g) >= 3 THEN n % 64 ELSE Pad >>

RECURSIVE B64Chars(_)
B64Chars(bytes) ==
    IF Len(bytes) = 0 THEN <<>>
    ELSE IF Len(bytes) <= 3 THEN B64Group(bytes)
    ELSE B64Group(SubSeq(bytes, 1, 3)) \o B64Chars(SubSeq(bytes, 4, Len(bytes)))

\* the base64 command wraps its output in lines of 76 characters
RECURSIVE WrapLines(_)
WrapLines(chars) ==
    IF Len(chars) = 0 THEN <<>>
    ELSE IF Len(chars) <= WrapCols THEN chars \o <<LF>>
    ELSE SubSeq(chars, 1, WrapCols) \o <<LF>>
         \o WrapLines(SubSeq(chars, WrapCols + 1, Len(chars)))

b64encode(bytes) == WrapLines(B64Chars(bytes))

\* b64decode drops every character outside the alphabet first
RECURSIVE B64Filter(_)
B64Filter(text) ==
    IF Len(text) = 0 THEN <<>>
    ELSE IF text[1] \in 0..Pad THEN <<text[1]>> \o B64Filter(Tail(text))
    ELSE B64Filter(Tail(text))

\* a decoder that takes the padding for data
B64QuadUnpadded(q) ==
    LET c3 == IF q[3] = Pad THEN 0 ELSE q[3]
        c4 == IF q[4] = Pad THEN 0 ELSE q[4]
        n  == q[1] * 262144 + q[2] * 4096 + c3 * 64 + c4
    IN  <<n \div 65536, (n \div 256) % 256, n % 256>>

B64Quad(q) ==
    LET c3 == IF q[3] = Pad THEN 0 ELSE q[3]
        c4 == IF q[4] = Pad THEN 0 ELSE q[4]
        n  == q[1] * 262144 + q[2] * 4096 + c3 * 64 + c4
        b1 == n \div 65536
        b2 == (n \div 256) % 256
        b3 == n % 256
    IN  IF q[3] = Pad THEN <<b1>>
        ELSE IF q[4] = Pad THEN <<b1, b2>>
        ELSE <<b1, b2, b3>>

RECURSIVE B64Quads(_)
B64Quads(chars) ==
    IF Len(chars) < 4 THEN <<>>
    ELSE B64Quad(SubSeq(chars, 1, 4)) \o B64Quads(SubSeq(chars, 5, Len(chars)))

\* b64decode raises binascii.Error on an incomplete group
b64valid(text) == Len(B64Filter(text)) % 4 = 0

b64decode(text) == B64Quads(B64Filter(text))

\* ------------------------------------------------------------------------
\* decimal text: the output of stat and Python's int()
\* ------------------------------------------------------------------------
RECURSIVE Decimal(_)
Decimal(n) == IF n < 10 THEN <<n>> ELSE Append(Decimal(n \div 10), n % 10)

\* what the size probe prints when the output is not a number
Garbage == <<10>>

IsDecimal(text) == Len(text) > 0 /\ \A i \in 1..Len(text) : text[i] \in 0..9

RECURSIVE int(_)
int(text) ==
    IF Len(text) = 0 THEN 0
    ELSE int(SubSeq(text, 1, Len(text) - 1)) * 10 + text[Len(text)]

\* ------------------------------------------------------------------------
\* The world of one run: command line, cluster, local disk
\* ------------------------------------------------------------------------
\* command-line arguments (argparse)
Strategies == {"same-container", "debug-container"}
ArgsSet ==
    [ strategy  : Strategies,
      pod       : {NoName, "web-0"},
      selector  : {NoName, "app=sample"},
      namespace : {"default"},
      dump_type : {"mini"},
      dump_pid  : {"1"},
      debug_image : {"sdk:latest"} ]

Container(name, ru, rg) == [name |-> name, runAsUser |-> ru, runAsGroup |-> rg]
ContainerStatus(name, linux, u, g) == [name |-> name, linux |-> linux, uid |-> u, gid |-> g]
EphStatus(name, state) == [name |-> name, state |-> state]

\* names and states of ephemeral containers in a pod's status
EphNames == {"old-1", "debugger-1"}
EphStates == {"running", "terminated"}
EphStatusLists ==
    {<<>>}
    \cup {<<EphStatus(n, s)>> : n \in EphNames, s \in EphStates}
    \cup {<<EphStatus(nm[1], s), EphStatus(nm[2], t)>> :
            nm \in {p \in EphNames \X EphNames : p[1] # p[2]},
            s \in EphStates, t \in EphStates}

\* the pod descriptions `kubectl get pod -o json` answers with
PodJson(cs, ann, sts, pu, pg, ephs) ==
    [ containers |-> cs, annotation |-> ann, containerStatuses |-> sts,
      podRunAsUser |-> pu, podRunAsGroup |-> pg,
      ephemeralContainers |-> ephs, ephemeralContainerStatuses |-> <<>> ]

Descriptions ==
    { PodJson(<<Container("app", cu[1], cu[2])>>, NoName,
              <<ContainerStatus("app", st[1], st[2], st[3])>>, pu[1], pu[2], ephs) :
        cu \in {<<None, None>>, <<0, 1000>>},
        st \in {<<FALSE, None, None>>, <<TRUE, 1000, None>>},
        pu \in {<<None, None>>, <<1000, 2000>>},
        ephs \in {<<>>, <<"old-1">>} }
    \cup { PodJson(<<>>, NoName, <<>>, None, None, <<>>),
           PodJson(<<Container("app", None, None), Container("proxy", 1000, 1000)>>,
                   "proxy", <<>>, None, None, <<>>) }

\* a description used where the pod's details do not matter
PlainPod ==
    PodJson(<<Container("app", None, None)>>, NoName,
            <<ContainerStatus("app", TRUE, 1000, 1000)>>, None, None, <<"old-1">>)

\* an absent file of bytes, and an absent text file
NoFile == <<-1>>
NoScript == <<"absent">>
\* no temporary file on disk (a written one holds the custom spec)
NoTmp == <<>>
\* body of the capture script remote.sh, as text pieces
ScriptBody == <<"set -e", "\n", "dotnet-dump collect", "\n">>

RemoteFiles == SeqsUpTo(ByteVals, MaxLen)
\* the dump of the runs where only the stages matter; they copy it in chunks of 1
PlainDump == <<0, 255>>

\* a file latest_dump left in the working directory by an earlier run
StaleByte == 7
PriorFiles == {NoFile, <<StaleByte, StaleByte, StaleByte>>}

\* every description and both listings, with one plain dump
StageWorlds ==
    { [listing |-> l, desc |-> d, remote_sh |-> r, dump |-> PlainDump,
       chunk_size |-> 1, latest_dump |-> p] :
        l \in {<<>>, <<"web-1", "web-2">>}, d \in Descriptions,
        r \in {NoScript, ScriptBody}, p \in PriorFiles }

\* the dump of the scenario of 25 units read in chunks of 10
ScenarioDump == [i \in 1..25 |-> 0]

\* the chunk_size arguments followed
ChunkSizes == (1..MaxChunk) \cup {10}

\* every dump and every chunk size, in one plain pod
DumpWorlds ==
    { [listing |-> <<"web-1", "web-2">>, desc |-> PlainPod,
       remote_sh |-> ScriptBody, dump |-> f, chunk_size |-> cs, latest_dump |-> p] :
        f \in RemoteFiles \cup {ScenarioDump}, cs \in ChunkSizes, p \in PriorFiles }

\* a command line with another namespace, dump type and process id
OtherArgs ==
    [ strategy  : Strategies,
      pod       : {"web-0"},
      selector  : {NoName},
      namespace : {"prod"},
      dump_type : {"full"},
      dump_pid  : {"42"},
      debug_image : {"sdk:latest"} ]

\* another remote.sh, without a final newline
OtherBody == <<"#!/bin/sh", "\n", "exec dotnet-dump collect">>

PlainWorld ==
    [ listing |-> <<"web-1", "web-2">>, desc |-> PlainPod, remote_sh |-> OtherBody,
      dump |-> PlainDump, chunk_size |-> 1, latest_dump |-> NoFile ]

\* the runs followed: every command line in the first worlds, the in-place
\* run on a named pod in the second, the other command line in a plain world
Runs ==
    (ArgsSet \X StageWorlds)
    \cup ({a \in ArgsSet : a.strategy = "same-container" /\ a.selector = NoName
                             /\ a.pod # NoName} \X DumpWorlds)
    \cup (OtherArgs \X {PlainWorld})

VARIABLES
    args, world, remote_file,
    pc, exit_code, stderr, calls, progress,
    kube_pod, container_name, pod_data, uid, gid, existing_ephemeral_containers,
    dump_dir, dump_file, script_content,
    custom_file, tmp_disk, debug_cmd, helpers, has_terminated, polls,
    local_file,
    chunk_size, total_size, offset, chunk_num

vars == << args, world, remote_file,
           pc, exit_code, stderr, calls, progress,
           kube_pod, container_name, pod_data, uid, gid, existing_ephemeral_containers,
           dump_dir, dump_file, script_content,
           custom_file, tmp_disk, debug_cmd, helpers, has_terminated, polls,
           local_file,
           chunk_size, total_size, offset, chunk_num >>

targetVars == <<kube_pod, container_name>>
identityVars == <<uid, gid, existing_ephemeral_containers>>
scriptVars == <<dump_dir, dump_file, script_content>>
debugVars == <<custom_file, tmp_disk, debug_cmd>>
watchVars == <<has_terminated, polls>>
localVars == <<local_file>>
copyVars == <<chunk_size, total_size, offset, chunk_num, progress>>
\* the command line and what the cluster holds
worldVars == <<args, world, remote_file, helpers>>

NoPod == PodJson(<<>>, NoName, <<>>, None, None, <<>>)

Init ==
    /\ \E run \in Runs : args = run[1] /\ world = run[2]
    /\ remote_file = world.dump
    /\ pc = "resolve"
    /\ exit_code = None
    /\ stderr = <<>>
    /\ calls = <<>>
    /\ progress = <<>>
    /\ kube_pod = NoName
    /\ container_name = NoName
    /\ pod_data = NoPod
    /\ uid = None
    /\ gid = None
    /\ existing_ephemeral_containers = {}
    /\ dump_dir = <<>>
    /\ dump_file = <<>>
    /\ script_content = <<>>
    /\ custom_file = NoName
    /\ tmp_disk = NoTmp
    /\ debug_cmd = <<>>
    /\ has_terminated = FALSE
    /\ polls = 0
    /\ helpers = <<>>
    /\ local_file = world.latest_dump
    /\ chunk_size = 0
    /\ total_size = 0
    /\ offset = 0
    /\ chunk_num = 0

\* a command that addresses the pod named on the command line
CallNamedPod(cmd, container, path, skip, count, rc) ==
    [ cmd |-> cmd, ns |-> args.namespace, pod |-> args.pod, container |-> container,
      path |-> path, skip |-> skip, count |-> count, rc |-> rc ]

\* one external command as it is issued, and the code it returned
\* (None when it could not be started)
Call(cmd, container, path, skip, count, rc) ==
    [ cmd |-> cmd, ns |-> args.namespace, pod |-> kube_pod, container |-> container,
      path |-> path, skip |-> skip, count |-> count, rc |-> rc ]

\* the exit status the operating system records for sys.exit(code)
ExitStatus(code) == code % 256

\* an error report that is not followed by sys.exit
DieWithoutExit(msg, code) ==
    /\ stderr' = Append(stderr, msg)
    /\ exit_code' = exit_code
    /\ pc' = pc

\* print("Error: ...", file=sys.stderr); sys.exit(code)
Die(msg, code) ==
    /\ stderr' = Append(stderr, msg)
    /\ exit_code' = ExitStatus(code)
    /\ pc' = "exited"

\* ------------------------------------------------------------------------
\* Target resolution (pod name determination)
\* ------------------------------------------------------------------------
\* a resolver that takes the last pod of the listing
LastListed(listing) == IF Len(listing) = 0 THEN NoName ELSE listing[Len(listing)]

\* stdout of `kubectl get pods -l selector -o jsonpath={.items[0].metadata.name}`
FirstListed(listing) == IF Len(listing) = 0 THEN NoName ELSE listing[1]

ResolveTarget ==
    /\ pc = "resolve"
    /\ IF args.selector # NoName
       THEN \/ /\ FirstListed(world.listing) # NoName
               /\ calls' = Append(calls, Call("get_pods", NoName, <<>>, None, None, 0))
               /\ kube_pod' = FirstListed(world.listing)
               /\ pc' = "describe"
               /\ UNCHANGED <<stderr, exit_code>>
            \/ /\ FirstListed(world.listing) = NoName
               /\ calls' = Append(calls, Call("get_pods", NoName, <<>>, None, None, 0))
               /\ kube_pod' = NoName
               /\ Die("Error: No pods found with selector", 1)
            \/ /\ \E rc \in FailCodes :
                     calls' = Append(calls, Call("get_pods", NoName, <<>>, None, None, rc))
               /\ Die("Error: Failed to find pod with selector", 1)
               /\ UNCHANGED kube_pod
       ELSE IF args.pod # NoName
       THEN /\ kube_pod' = args.pod
            /\ pc' = "describe"
            /\ UNCHANGED <<calls, stderr, exit_code>>
       ELSE /\ Die("Error: Either pod name or --selector (-l) must be specified", 1)
            /\ UNCHANGED <<calls, kube_pod>>
    /\ UNCHANGED <<worldVars, progress, container_name, pod_data, identityVars,
                   scriptVars, debugVars, watchVars, localVars,
                   chunk_size, total_size, offset, chunk_num>>

\* ------------------------------------------------------------------------
\* Pod validation, default container, uid/gid extraction
\* ------------------------------------------------------------------------
\* index of the first entry of a list that carries the name, 0 if none
RECURSIVE IndexOfName(_, _, _)
IndexOfName(list, name, i) ==
    IF i > Len(list) THEN 0
    ELSE IF list[i].name = name THEN i
    ELSE IndexOfName(list, name, i + 1)

\* Python's `a or b` on optional numbers
PyOr(a, b) == IF a # None /\ a # 0 THEN a ELSE b

DefaultContainer(pd) ==
    IF pd.annotation # NoName THEN pd.annotation ELSE pd.containers[1].name

\* uid / gid out of status.containerStatuses[].user.linux
StatusId(pd, cname, field) ==
    LET i == IndexOfName(pd.containerStatuses, cname, 1)
    IN  IF i = 0 THEN None
        ELSE IF ~pd.containerStatuses[i].linux THEN None
        ELSE IF field = "uid" THEN pd.containerStatuses[i].uid
        ELSE pd.containerStatuses[i].gid

\* the fallback to the container's and the pod's securityContext
ResolveId(pd, cname, field) ==
    LET u == StatusId(pd, cname, "uid")
        g == StatusId(pd, cname, "gid")
        mine == IF field = "uid" THEN u ELSE g
        j == IndexOfName(pd.containers, cname, 1)
    IN  IF (u = None \/ g = None) /\ j # 0 /\ mine = None
        THEN IF field = "uid"
             THEN PyOr(pd.containers[j].runAsUser, pd.podRunAsUser)
             ELSE PyOr(pd.containers[j].runAsGroup, pd.podRunAsGroup)
        ELSE mine

Names(list) == {list[i] : i \in 1..Len(list)}

DescribePod ==
    /\ pc = "describe"
    /\ \/ /\ Len(world.desc.containers) > 0
          /\ calls' = Append(calls, Call("get_pod", NoName, <<>>, None, None, 0))
          /\ pod_data' = world.desc
          /\ container_name' = DefaultContainer(world.desc)
          /\ uid' = ResolveId(world.desc, DefaultContainer(world.desc), "uid")
          /\ gid' = ResolveId(world.desc, DefaultContainer(world.desc), "gid")
          /\ existing_ephemeral_containers' = Names(world.desc.ephemeralContainers)
          /\ pc' = "compose"
          /\ UNCHANGED <<stderr, exit_code>>
       \/ /\ Len(world.desc.containers) = 0
          /\ calls' = Append(calls, Call("get_pod", NoName, <<>>, None, None, 0))
          /\ pod_data' = world.desc
          /\ Die("Error: No containers found in pod", 1)
          /\ UNCHANGED <<container_name, identityVars>>
       \/ /\ \E rc \in FailCodes :
                calls' = Append(calls, Call("get_pod", NoName, <<>>, None, None, rc))
          /\ Die("Error: Pod does not exist", 1)
          /\ UNCHANGED <<pod_data, container_name, identityVars>>
       \/ /\ calls' = Append(calls, Call("get_pod", NoName, <<>>, None, None, 0))
          /\ Die("Error: Failed to parse pod data", 1)
          /\ UNCHANGED <<pod_data, container_name, identityVars>>
    /\ UNCHANGED <<worldVars, progress, kube_pod, scriptVars, debugVars, watchVars,
                   localVars, chunk_size, total_size, offset, chunk_num>>

\* ------------------------------------------------------------------------
\* Script preparation
\* ------------------------------------------------------------------------
\* a directory that does not follow the strategy
DumpDirFixed(strategy, dump_pid) == <<"/tmp/dumps">>

\* dump_dir: /tmp/dumps, seen through /proc/<pid>/root by the debug container
DumpDir(strategy, dump_pid) ==
    IF strategy = "same-container" THEN <<"/tmp/dumps">>
    ELSE <<"/proc/", dump_pid, "/root/tmp/dumps">>

\* one line `name="value"` of the f-string
Assign(name, value) == <<name, "=\"">> \o value \o <<"\"", "\n">>

\* a composer that leaves the strategy line out of the same-container script
ScriptContentByStrategy(a, dir, remote_script) ==
    Assign("dump_type", <<a.dump_type>>)
    \o Assign("dump_pid", <<a.dump_pid>>)
    \o Assign("dump_dir", dir)
    \o (IF a.strategy = "same-container" THEN <<>>
        ELSE Assign("strategy", <<a.strategy>>))
    \o <<"\n">> \o remote_script \o <<"\n">>

\* script_content: the four assignments, an empty line, remote.sh, a newline
ScriptContent(a, dir, remote_script) ==
    Assign("dump_type", <<a.dump_type>>)
    \o Assign("dump_pid", <<a.dump_pid>>)
    \o Assign("dump_dir", dir)
    \o Assign("strategy", <<a.strategy>>)
    \o <<"\n">> \o remote_script \o <<"\n">>

ComposeScript ==
    /\ pc = "compose"
    /\ dump_dir' = DumpDir(args.strategy, args.dump_pid)
    /\ \/ /\ world.remote_sh # NoScript
          /\ script_content' =
                ScriptContent(args, DumpDir(args.strategy, args.dump_pid), world.remote_sh)
          /\ pc' = IF args.strategy = "same-container" THEN "exec" ELSE "debug_prepare"
          /\ UNCHANGED <<stderr, exit_code>>
       \/ /\ world.remote_sh = NoScript
          /\ Die("Error: remote.sh not found", 1)
          /\ UNCHANGED script_content
    /\ UNCHANGED <<worldVars, calls, progress, targetVars, pod_data, identityVars,
                   dump_file, debugVars, watchVars, localVars,
                   chunk_size, total_size, offset, chunk_num>>

\* ------------------------------------------------------------------------
\* Launch: same-container
\* ------------------------------------------------------------------------
\* a launch failure that always exits with 1
LaunchExitOne(rc) == 1

\* the code the run exits with when the launch command returns rc # 0
LaunchExit(rc) == rc

\* a launcher that never looks at the return code
LaunchFailsNever(rc) == FALSE

\* if result.returncode != 0
LaunchFails(rc) == rc # 0

LaunchSame ==
    /\ pc = "exec"
    /\ \/ \E rc \in {0} \cup FailCodes :
            /\ calls' = Append(calls, Call("exec_bash", NoName, <<>>, None, None, rc))
            /\ IF LaunchFails(rc)
               THEN Die("Error: kubectl exec failed with exit code", LaunchExit(rc))
               ELSE /\ pc' = "remove_local"
                    /\ UNCHANGED <<stderr, exit_code>>
       \/ /\ calls' = Append(calls, Call("exec_bash", NoName, <<>>, None, None, None))
          /\ Die("Error: kubectl not found", 1)
    /\ UNCHANGED <<worldVars, progress, targetVars, pod_data, identityVars, scriptVars,
                   debugVars, watchVars, localVars,
                   chunk_size, total_size, offset, chunk_num>>

\* ------------------------------------------------------------------------
\* Launch: debug-container
\* ------------------------------------------------------------------------
\* name of the NamedTemporaryFile
TmpName == "tmp.json"

CustomSpec(u, g) == [runAsUser |-> u, runAsGroup |-> g]

\* an override that is requested only when both fields are resolved
WantsCustomBoth(u, g) == u # None /\ g # None

\* whether the custom security context is added
WantsCustom(u, g) == u # None \/ g # None

DebugCmd(image, target, custom) ==
    [ image |-> image, target |-> target,
      profile |-> IF custom # NoName THEN "restricted" ELSE NoName,
      custom |-> custom ]

DebugPrepare ==
    /\ pc = "debug_prepare"
    /\ IF WantsCustom(uid, gid)
       THEN /\ custom_file' = TmpName
            /\ tmp_disk' = <<CustomSpec(uid, gid)>>
            /\ debug_cmd' = <<DebugCmd(args.debug_image, container_name, TmpName)>>
       ELSE /\ custom_file' = NoName
            /\ tmp_disk' = tmp_disk
            /\ debug_cmd' = <<DebugCmd(args.debug_image, container_name, NoName)>>
    /\ pc' = "debug_launch"
    /\ UNCHANGED <<worldVars, exit_code, stderr, calls, progress, targetVars, pod_data,
                   identityVars, scriptVars, watchVars, localVars,
                   chunk_size, total_size, offset, chunk_num>>

\* a cleanup placed after the call instead of in a finally clause
UnlinkOnSuccess(outcome, cf, disk) ==
    IF cf # NoName /\ outcome = "ok" THEN NoTmp ELSE disk

\* the finally clause: what is on disk after the call ended with `outcome`
FinallyUnlink(outcome, cf, disk) == IF cf # NoName THEN NoTmp ELSE disk

DebugLaunch ==
    /\ pc = "debug_launch"
    /\ \/ \E rc \in {0} \cup FailCodes :
            /\ calls' = Append(calls, Call("debug", container_name, tmp_disk,
                                           None, None, rc))
            /\ IF LaunchFails(rc)
               THEN /\ Die("Error: kubectl debug failed with exit code", LaunchExit(rc))
                    /\ tmp_disk' = FinallyUnlink("failed", custom_file, tmp_disk)
               ELSE /\ pc' = "poll"
                    /\ tmp_disk' = FinallyUnlink("ok", custom_file, tmp_disk)
                    /\ UNCHANGED <<stderr, exit_code>>
       \/ /\ calls' = Append(calls, Call("debug", container_name, tmp_disk, None, None, None))
          /\ Die("Error: kubectl not found", 1)
          /\ tmp_disk' = FinallyUnlink("not_found", custom_file, tmp_disk)
       \/ /\ calls' = Append(calls, Call("debug", container_name, tmp_disk, None, None, None))
          /\ Die("Traceback (most recent call last)", 1)
          /\ tmp_disk' = FinallyUnlink("exception", custom_file, tmp_disk)
    /\ UNCHANGED <<worldVars, progress, targetVars, pod_data, identityVars, scriptVars,
                   custom_file, debug_cmd, watchVars, localVars,
                   chunk_size, total_size, offset, chunk_num>>

\* ------------------------------------------------------------------------
\* Completion polling loop
\* ------------------------------------------------------------------------
\* a check that forgets the containers that existed before the launch
HasTerminatedAnyName(statuses, existing) ==
    \E i \in 1..Len(statuses) : statuses[i].state = "terminated"

\* an ephemeral container that did not exist before the launch has terminated
HasTerminated(statuses, existing) ==
    \E i \in 1..Len(statuses) :
        /\ statuses[i].name \notin existing
        /\ statuses[i].state = "terminated"

\* a watcher that gives up after two polls
PollAgainTwice(n) == n < 2

\* while True: the loop has no other exit than `break` and sys.exit
PollAgain(n) == TRUE

\* the log of calls keeps the first MaxPolls polls and, past that, the last one
LogPoll(c) ==
    IF polls < MaxPolls THEN Append(calls, c) ELSE [calls EXCEPT ![Len(calls)] = c]

Poll ==
    /\ pc = "poll"
    /\ polls' = Min(polls + 1, MaxPolls)
    /\ \/ /\ calls' = LogPoll(Call("get_pod", NoName, <<>>, None, None, 0))
          /\ pod_data' = [world.desc EXCEPT !.ephemeralContainerStatuses = helpers]
          /\ has_terminated' = HasTerminated(helpers, existing_ephemeral_containers)
          /\ pc' = IF has_terminated' THEN "remove_local"
                   ELSE IF PollAgain(polls') THEN "poll"
                   ELSE "remove_local"
          /\ UNCHANGED <<stderr, exit_code>>
       \/ /\ \E rc \in FailCodes :
                calls' = LogPoll(Call("get_pod", NoName, <<>>, None, None, rc))
          /\ Die("Error: Pod does not exist", 1)
          /\ UNCHANGED <<pod_data, has_terminated>>
       \/ /\ calls' = LogPoll(Call("get_pod", NoName, <<>>, None, None, 0))
          /\ Die("Error: Failed to parse pod data", 1)
          /\ UNCHANGED <<pod_data, has_terminated>>
    /\ UNCHANGED <<worldVars, progress, targetVars, identityVars, scriptVars,
                   debugVars, localVars, chunk_size, total_size, offset, chunk_num>>

\* the kubelet starts, stops or reports ephemeral containers while the run
\* waits between two polls (time.sleep(1))
HelperChange ==
    /\ pc = "poll"
    /\ \E l \in EphStatusLists : helpers' = l
    /\ UNCHANGED <<args, world, remote_file, pc, exit_code, stderr, calls, progress,
                   targetVars, pod_data, identityVars, scriptVars, debugVars,
                   watchVars, localVars, chunk_size, total_size, offset, chunk_num>>

\* ------------------------------------------------------------------------
\* Transfer: local file removal and kubectl_chunked_cp
\* ------------------------------------------------------------------------
\* a run that leaves the old file where it is
RemoveNever(f) == f

\* if os.path.exists(local_file): os.remove(local_file)
RemoveIfExists(f) == IF f # NoFile THEN NoFile ELSE f

RemoveLocal ==
    /\ pc = "remove_local"
    /\ dump_file' = dump_dir \o <<"/latest_dump">>
    /\ local_file' = RemoveIfExists(local_file)
    /\ pc' = "probe"
    /\ UNCHANGED <<worldVars, exit_code, stderr, calls, progress, targetVars, pod_data,
                   identityVars, dump_dir, script_content, debugVars, watchVars,
                   chunk_size, total_size, offset, chunk_num>>

\* a copy failure that exits with the command's own code
CopyExitCode(rc) == rc

\* the code the run exits with when a command of the copy returns rc # 0
CopyExit(rc) == 1

\* `stat -c %s` prints the size in decimal
StatOutput(file) == Decimal(Len(file))

SizeProbe ==
    /\ pc = "probe"
    /\ chunk_size' = world.chunk_size
    /\ \/ /\ calls' = Append(calls, Call("stat", container_name, dump_file, None, None, 0))
          /\ IsDecimal(StatOutput(remote_file))
          /\ total_size' = int(StatOutput(remote_file))
          /\ local_file' = <<>>
          /\ offset' = 0
          /\ chunk_num' = 0
          /\ pc' = "chunk"
          /\ UNCHANGED <<stderr, exit_code>>
       \/ /\ \E rc \in FailCodes :
                /\ calls' = Append(calls, Call("stat", container_name, dump_file,
                                               None, None, rc))
                /\ Die("Error: Command failed", CopyExit(rc))
          /\ UNCHANGED <<total_size, localVars, offset, chunk_num>>
       \/ /\ calls' = Append(calls, Call("stat", container_name, dump_file, None, None, 0))
          /\ ~IsDecimal(Garbage)
          /\ Die("Error: Failed to copy file", 1)
          /\ UNCHANGED <<total_size, localVars, offset, chunk_num>>
    /\ UNCHANGED <<worldVars, progress, targetVars, pod_data, identityVars, scriptVars,
                   debugVars, watchVars>>

\* a loop that stops one byte early
MoreToReadShort(off, total) == off < total - 1

\* while offset < total_size
MoreToRead(off, total) == off < total

\* a request for a whole chunk even at the end of the file
BytesToReadWhole(cs, total, off) == cs

BytesToRead(cs, total, off) == Min(cs, total - off)

\* the skip=0 of the command line that is first built and then overwritten
DdSkipZero(off) == 0

\* the skip= operand of the dd command that is run
DdSkip(off) == off

\* dd bs=1M skip= count= iflag=skip_bytes,count_bytes
dd(file, skip, count) == SubSeq(file, skip + 1, Min(skip + count, Len(file)))

Percent(off, total) == (100 * off) \div total

\* an offset that moves on by the bytes asked for
AdvanceRequested(off, written, requested) == off + requested

\* offset += len(chunk_data)
Advance(off, written, requested) == off + written

ReadChunk ==
    /\ pc = "chunk"
    /\ MoreToRead(offset, total_size)
    /\ chunk_num < MaxReads
    /\ chunk_num' = chunk_num + 1
    /\ LET bytes_to_read == BytesToRead(chunk_size, total_size, offset)
           stdout == b64encode(dd(remote_file, DdSkip(offset), bytes_to_read))
           chunk_data == b64decode(stdout)
       IN  \/ /\ calls' = Append(calls, Call("dd", container_name, dump_file,
                                             DdSkip(offset), bytes_to_read, 0))
              /\ b64valid(stdout)
              /\ local_file' = local_file \o chunk_data
              /\ offset' = Advance(offset, Len(chunk_data), bytes_to_read)
              /\ progress' = Append(progress, Percent(offset', total_size))
              /\ UNCHANGED <<pc, stderr, exit_code>>
           \/ /\ \E rc \in FailCodes :
                    /\ calls' = Append(calls, Call("dd", container_name, dump_file,
                                                   DdSkip(offset), bytes_to_read, rc))
                    /\ Die("Error: Command failed", CopyExit(rc))
              /\ UNCHANGED <<local_file, offset, progress>>
    /\ UNCHANGED <<worldVars, targetVars, pod_data, identityVars, scriptVars, debugVars,
                   watchVars, chunk_size, total_size>>

\* the size verification that ends kubectl_chunked_cp, and with it the run
SizeMismatch(local_size, total) == local_size # total

Verify ==
    /\ pc = "chunk"
    /\ ~MoreToRead(offset, total_size)
    /\ stderr' = IF SizeMismatch(Len(local_file), total_size)
                 THEN Append(stderr, "Warning: Size mismatch")
                 ELSE stderr
    /\ exit_code' = 0
    /\ pc' = "exited"
    /\ UNCHANGED <<worldVars, calls, progress, targetVars, pod_data, identityVars,
                   scriptVars, debugVars, watchVars, localVars,
                   chunk_size, total_size, offset, chunk_num>>

\* the remote file loses its tail while the copy is under way
RemoteTruncate ==
    /\ pc = "chunk"
    /\ MoreToRead(offset, total_size)
    /\ \E n \in 0..(Len(remote_file) - 1) : remote_file' = SubSeq(remote_file, 1, n)
    /\ UNCHANGED <<args, world, helpers, pc, exit_code, stderr, calls, progress, targetVars,
                   pod_data, identityVars, scriptVars, debugVars, watchVars, localVars,
                   chunk_size, total_size, offset, chunk_num>>

Next ==
    \/ ResolveTarget
    \/ DescribePod
    \/ ComposeScript
    \/ LaunchSame
    \/ DebugPrepare
    \/ DebugLaunch
    \/ Poll
    \/ HelperChange
    \/ RemoveLocal
    \/ SizeProbe
    \/ ReadChunk
    \/ Verify
    \/ RemoteTruncate

Spec == Init /\ [][Next]_vars

\* the same program with the loop of the watcher kept running: the body of
\* `while True` is executed again after every time.sleep(1)
SpecWatch == Init /\ [][Next]_vars /\ WF_vars(Poll)

\* ------------------------------------------------------------------------
\* Properties
\* ------------------------------------------------------------------------
LastCall == calls[Len(calls)]
IsDd(c) == c.cmd = "dd"
DdCalls == SelectSeq(calls, IsDd)
\* an error was reported (the size-mismatch warning is not an error)
Fatal == \E i \in 1..Len(stderr) : stderr[i] # "Warning: Size mismatch"
Warned == \E i \in 1..Len(stderr) : stderr[i] = "Warning: Size mismatch"
Exited == pc = "exited"
\* the run has come to the transfer: the local file removal or later
TransferStage == pc \in {"probe", "chunk"} \/ (Exited /\ dump_file # <<>>)

\* the state of the Completion Watcher
WatcherState ==
    IF has_terminated THEN "DONE"
    ELSE IF pc = "poll" \/ polls > 0 THEN "WAITING"
    ELSE "IDLE"

\* the last fetched status list names a helper that was not in the pod's
\* description before the launch, in a terminal state
NewHelperTerminal ==
    \E i \in 1..Len(pod_data.ephemeralContainerStatuses) :
        /\ \A j \in 1..Len(world.desc.ephemeralContainers) :
              world.desc.ephemeralContainers[j] # pod_data.ephemeralContainerStatuses[i].name
        /\ pod_data.ephemeralContainerStatuses[i].state = "terminated"

\* C1: the watcher is DONE exactly when the status list of its last poll holds
\* a helper that is new since the launch and terminated; it is WAITING after
\* every poll that shows no such helper, whatever the state of older helpers,
\* and the transfer starts in the side-car strategy only when it is DONE.
C1_DoneIffNewHelperTerminated ==
    /\ (WatcherState = "DONE") <=> NewHelperTerminal
    /\ (pc = "poll" /\ polls > 0) => ~NewHelperTerminal
    /\ (args.strategy = "debug-container" /\ TransferStage) => WatcherState = "DONE"

C1_Witness ==
    /\ WatcherState = "DONE"
    /\ polls >= 2
    /\ \E i \in 1..Len(pod_data.ephemeralContainerStatuses) :
          /\ pod_data.ephemeralContainerStatuses[i].name = "old-1"
          /\ pod_data.ephemeralContainerStatuses[i].state = "terminated"
          /\ "old-1" \in existing_ephemeral_containers

\* C2: a run that ends without an error report exits with code 0, leaves the
\* local file, and the bytes written to it (the running sum of the chunk
\* lengths) are as many as the size the probe recorded, the size of the dump.
C2_SuccessWritesProbedSize ==
    (Exited /\ ~Fatal) =>
        /\ exit_code = 0
        /\ local_file # NoFile
        /\ total_size = Len(world.dump)
        /\ offset = total_size
        /\ Len(local_file) = total_size
        /\ ~Warned

C2_Witness ==
    /\ Exited /\ ~Fatal /\ exit_code = 0
    /\ args.strategy = "debug-container"
    /\ chunk_num >= 2
    /\ Len(local_file) = 2

\* C3: while every read returns the bytes asked for, the k-th read starts at
\* (k-1)*C and asks for min(C, S-(k-1)*C) bytes, the k-th progress report is
\* floor(100*min(k*C,S)/S), and a copy that ends has made ceil(S/C) reads;
\* 25 units in chunks of 10 are read as 10, 10, 5 with 40, 80, 100 percent.
C3_ReadsAndProgress ==
    (remote_file = world.dump) =>
        /\ \A k \in 1..Len(DdCalls) :
              /\ DdCalls[k].skip = (k - 1) * chunk_size
              /\ DdCalls[k].count = Min(chunk_size, total_size - (k - 1) * chunk_size)
        /\ \A k \in 1..Len(progress) :
              progress[k] = (100 * Min(k * chunk_size, total_size)) \div total_size
        /\ (Exited /\ exit_code = 0) =>
              /\ Len(DdCalls) = (total_size + chunk_size - 1) \div chunk_size
              /\ Len(progress) = Len(DdCalls)
        /\ (Exited /\ exit_code = 0 /\ total_size = 25 /\ chunk_size = 10) =>
              /\ [k \in 1..Len(DdCalls) |-> DdCalls[k].count] = <<10, 10, 5>>
              /\ progress = <<40, 80, 100>>

C3_Witness ==
    /\ Exited /\ exit_code = 0
    /\ total_size = 25 /\ chunk_size = 10
    /\ Len(DdCalls) = 3
    /\ progress = <<40, 80, 100>>

\* the read of the last chunk came back short
TruncatedLastRead ==
    /\ pc = "chunk"
    /\ chunk_num > 0
    /\ LastCall.cmd = "dd" /\ LastCall.rc = 0
    /\ LastCall.skip + LastCall.count = total_size
    /\ offset < LastCall.skip + LastCall.count

\* C4: after a truncated read of the last chunk the transfer ends with the
\* size verification and its warning: no further read is made.
C4_NoReadAfterTruncatedLastRead ==
    [][TruncatedLastRead => (chunk_num' = chunk_num /\ calls' = calls)]_vars

\* C5: the local file of a finished copy is the remote byte sequence, and the
\* local file of a copy under way is its first `offset` bytes.
C5_RoundTrip ==
    /\ (Exited /\ exit_code = 0) => local_file = world.dump
    /\ (pc = "chunk") =>
          /\ offset <= Len(world.dump)
          /\ local_file = SubSeq(world.dump, 1, offset)

C5_Witness ==
    /\ Exited /\ exit_code = 0
    /\ chunk_num >= 2
    /\ total_size % chunk_size # 0
    /\ \E i, j \in 1..Len(local_file) : local_file[i] # local_file[j]

\* C6: from the start of the transfer on, the local file is absent or holds
\* only bytes of the dump that this run wrote, none left by an earlier run.
C6_NoStaleLocalFile ==
    TransferStage =>
        \/ local_file = NoFile
        \/ /\ \A i \in 1..Len(local_file) : local_file[i] # StaleByte
           /\ Len(local_file) <= Len(world.dump)
           /\ local_file = SubSeq(world.dump, 1, Len(local_file))

C6_Witness ==
    /\ world.latest_dump # NoFile
    /\ pc = "chunk"
    /\ local_file # NoFile
    /\ Len(local_file) > 0

\* the launch command returned a non-zero code
LaunchFailed ==
    /\ calls # <<>>
    /\ LastCall.cmd \in {"exec_bash", "debug"}
    /\ LastCall.rc \notin {0, None}

\* C7: a launch command that returns the non-zero code c ends the run with
\* exit code c.
C7_LaunchCodePropagated ==
    LaunchFailed => (Exited /\ exit_code = LastCall.rc)

C7_Witness ==
    /\ LaunchFailed /\ LastCall.cmd = "debug" /\ LastCall.rc = 126
    /\ Exited /\ exit_code = 126

\* a command of the copy returned a non-zero code
CopyCommandFailed ==
    /\ calls # <<>>
    /\ LastCall.cmd \in {"stat", "dd"}
    /\ LastCall.rc \notin {0, None}

\* C8 as stated: a size probe or chunk read that returns the non-zero code c
\* ends the run with exit code c.
C8_CopyCodePropagated ==
    CopyCommandFailed => (Exited /\ exit_code = LastCall.rc)

\* C8 as amended: a size probe or chunk read that returns a non-zero code
\* ends the run with exit code 1, whatever the code.
C8_CopyFailureExitsOne ==
    CopyCommandFailed => (Exited /\ exit_code = 1)

C8_Witness ==
    /\ CopyCommandFailed /\ LastCall.cmd = "dd" /\ LastCall.rc = 126
    /\ chunk_num >= 2
    /\ Exited /\ exit_code = 1

\* C9: once an error is reported the run has exited with a non-zero code, and
\* nothing follows: no command is issued, the local file is not written, no
\* stage is entered.
C9_FatalStopsTheRun ==
    /\ [](Fatal => (Exited /\ exit_code # None /\ exit_code # 0))
    /\ [][Fatal => (calls' = calls /\ local_file' = local_file /\ pc' = pc)]_vars

C9_Witness ==
    /\ Fatal /\ Exited /\ exit_code = 1
    /\ calls # <<>> /\ LastCall.cmd = "dd"
    /\ local_file # NoFile /\ Len(local_file) > 0 /\ Len(local_file) < total_size

\* C10: a temporary identity-override file that was written is gone as soon
\* as the helper-creation call has ended, however it ended.
C10_TempFileRemoved ==
    (custom_file # NoName /\ pc # "debug_launch") => tmp_disk = NoTmp

C10_Witness ==
    /\ custom_file # NoName
    /\ Exited /\ exit_code = 126
    /\ calls # <<>> /\ LastCall.cmd = "debug" /\ LastCall.path # NoTmp
    /\ tmp_disk = NoTmp


\* ------------------------------------------------------------------------
\* Identity resolution
\* ------------------------------------------------------------------------
\* the first value of a priority list that is supplied, None if none is
RECURSIVE FirstSupplied(_)
FirstSupplied(sources) ==
    IF sources = <<>> THEN None
    ELSE IF Head(sources) # None THEN Head(sources)
    ELSE FirstSupplied(Tail(sources))

\* what the three sources of a description supply for one field of the
\* selected container, highest priority first
IdSources(pd, cname, field) ==
    LET j == IndexOfName(pd.containers, cname, 1)
        declared == IF j = 0 THEN None
                    ELSE IF field = "uid" THEN pd.containers[j].runAsUser
                    ELSE pd.containers[j].runAsGroup
        workload == IF field = "uid" THEN pd.podRunAsUser ELSE pd.podRunAsGroup
    IN  <<StatusId(pd, cname, field), declared, workload>>

Resolved == container_name # NoName

\* C11: uid and gid are resolved independently, each from the highest
\* priority source that supplies a value (runtime status, then the
\* container's securityContext, then the pod's), the value 0 included, and
\* resolving the stored description again gives the same identity
C11_IdentityFromHighestSource ==
    Resolved =>
        /\ uid = FirstSupplied(IdSources(world.desc, container_name, "uid"))
        /\ gid = FirstSupplied(IdSources(world.desc, container_name, "gid"))
        /\ uid = ResolveId(world.desc, container_name, "uid")
        /\ gid = ResolveId(world.desc, container_name, "gid")


\* ------------------------------------------------------------------------
\* Identity override of the debug container
\* ------------------------------------------------------------------------
NothingSupplied(pd, cname) ==
    /\ FirstSupplied(IdSources(pd, cname, "uid")) = None
    /\ FirstSupplied(IdSources(pd, cname, "gid")) = None

DebugCalls == {i \in 1..Len(calls) : calls[i].cmd = "debug"}

\* C12: the debug request carries --custom iff uid or gid was resolved, the
\* file it names then holds exactly the resolved uid and gid; a description
\* that supplies neither leaves both unresolved, writes no file and sends a
\* request without the override
C12_OverrideIffResolved ==
    debug_cmd # <<>> =>
        /\ (debug_cmd[1].custom # NoName) <=> (uid # None \/ gid # None)
        /\ (debug_cmd[1].custom # NoName) <=> (custom_file # NoName)
        /\ pc = "debug_launch" =>
              tmp_disk = IF uid # None \/ gid # None
                         THEN <<[runAsUser |-> uid, runAsGroup |-> gid]>>
                         ELSE NoTmp
        /\ \A i \in DebugCalls :
              calls[i].path = IF uid # None \/ gid # None
                              THEN <<[runAsUser |-> uid, runAsGroup |-> gid]>>
                              ELSE NoTmp
        /\ NothingSupplied(world.desc, container_name) =>
              /\ uid = None /\ gid = None
              /\ debug_cmd[1].custom = NoName
              /\ debug_cmd[1].profile = NoName

\* a request sent with an override although only the uid was resolved
C12_Witness ==
    /\ DebugCalls # {}
    /\ uid # None /\ gid = None
    /\ debug_cmd[1].custom = TmpName
    /\ calls[CHOOSE i \in DebugCalls : TRUE].path = <<[runAsUser |-> uid, runAsGroup |-> None]>>


\* ------------------------------------------------------------------------
\* Composed script
\* ------------------------------------------------------------------------
Composed == script_content # <<>>

\* the text of the directory the script is told to write to
ExpectedDir ==
    IF args.strategy = "same-container" THEN <<"/tmp/dumps">>
    ELSE <<"/proc/", args.dump_pid, "/root/tmp/dumps">>

ThreeLines ==
    <<"dump_type", "=\"", args.dump_type, "\"", "\n">>
    \o <<"dump_pid", "=\"", args.dump_pid, "\"", "\n">>
    \o <<"dump_dir", "=\"">> \o ExpectedDir \o <<"\"", "\n">>

StrategyLine == <<"strategy", "=\"", args.strategy, "\"", "\n">>

\* the statement of C13 as given: three lines for same-container, four for
\* debug-container, then the body of remote.sh and nothing else
C13_PreambleThenBodyOnly ==
    Composed =>
        script_content =
            ThreeLines
            \o (IF args.strategy = "debug-container" THEN StrategyLine ELSE <<>>)
            \o world.remote_sh

\* C13 (amended): for both strategies the script is the four assignment
\* lines dump_type, dump_pid, dump_dir, strategy in that order, one empty
\* line, the unmodified body of remote.sh and one closing newline
C13_FourLinesBlankBodyNewline ==
    Composed =>
        script_content =
            ThreeLines \o StrategyLine \o <<"\n">> \o world.remote_sh \o <<"\n">>

\* a same-container script that carries the strategy line
C13_Witness ==
    /\ Composed
    /\ args.strategy = "same-container"
    /\ SubSeq(script_content, 16, 20) = StrategyLine
    /\ Len(script_content) = 22 + Len(world.remote_sh)


\* ------------------------------------------------------------------------
\* Target resolution with a selector
\* ------------------------------------------------------------------------
\* the calls made after the pod listing
LaterCalls == {i \in 1..Len(calls) : calls[i].cmd # "get_pods"}

\* C14: with a selector, an empty listing ends the run with exit code 1 and
\* an error before any describe, launch or transfer call; a listing of one
\* or more pods resolves to its first entry, whatever pod name was also
\* given on the command line, and every later call addresses that pod
C14_SelectorTakesFirstListed ==
    (args.selector # NoName /\ pc # "resolve") =>
        /\ world.listing = <<>> =>
              /\ Exited /\ exit_code = 1 /\ Fatal
              /\ kube_pod = NoName
              /\ LaterCalls = {}
        /\ kube_pod # NoName => kube_pod = world.listing[1]
        /\ (world.listing # <<>> /\ ~Exited) => kube_pod = world.listing[1]
        /\ \A i \in LaterCalls : calls[i].pod = world.listing[1]

\* selector and pod name both given; the pod described is the first listed
C14_Witness ==
    /\ args.selector # NoName /\ args.pod # NoName
    /\ Len(world.listing) > 1
    /\ kube_pod = world.listing[1] /\ kube_pod # args.pod
    /\ LaterCalls # {}


\* ------------------------------------------------------------------------
\* Order of the stages
\* ------------------------------------------------------------------------
IsLaunch(c) == c.cmd \in {"exec_bash", "debug"}
LaunchCalls == {i \in 1..Len(calls) : IsLaunch(calls[i])}
CopyCalls == {i \in 1..Len(calls) : calls[i].cmd \in {"stat", "dd"}}
\* the fetches of the pod made after the launch
PollCalls ==
    {i \in 1..Len(calls) :
        calls[i].cmd = "get_pod" /\ \E j \in LaunchCalls : j < i}

\* C15: the size probe (and every chunk read) comes only after a launch
\* command that returned 0 and, for debug-container, after a poll that saw
\* the new helper terminated; the launch is issued once, nothing of the
\* earlier stages is issued after the transfer began, and same-container
\* never polls
C15_TransferAfterLaunchAndWatch ==
    /\ Cardinality(LaunchCalls) <= 1
    /\ (CopyCalls # {} \/ pc \in {"remove_local", "probe", "chunk"}) =>
          /\ \E j \in LaunchCalls : calls[j].rc = 0
          /\ args.strategy = "debug-container" =>
                /\ has_terminated /\ NewHelperTerminal
                /\ PollCalls # {}
    /\ \A i \in CopyCalls :
          /\ \E j \in LaunchCalls : j < i /\ calls[j].rc = 0
          /\ \A k \in 1..Len(calls) : k > i => k \in CopyCalls
          /\ args.strategy = "debug-container" =>
                \E k \in PollCalls : k < i /\ calls[k].rc = 0
    /\ args.strategy = "same-container" =>
          /\ PollCalls = {}
          /\ polls = 0 /\ pc # "poll" /\ ~has_terminated

\* a debug-container run that is reading chunks after two polls
C15_Witness ==
    /\ args.strategy = "debug-container"
    /\ Cardinality(PollCalls) >= 2
    /\ \E i \in CopyCalls : calls[i].cmd = "dd"


\* ------------------------------------------------------------------------
\* The watcher has no timeout
\* ------------------------------------------------------------------------
\* the cluster reports a helper that was not there before the launch as
\* terminated
ClusterHelperTerminal ==
    \E i \in 1..Len(helpers) :
        /\ \A j \in 1..Len(world.desc.ephemeralContainers) :
              world.desc.ephemeralContainers[j] # helpers[i].name
        /\ helpers[i].state = "terminated"

PollFailed ==
    /\ Exited /\ exit_code = 1
    /\ stderr[Len(stderr)] \in {"Error: Pod does not exist",
                                "Error: Failed to parse pod data"}

\* C16: the watcher leaves WAITING only for DONE, on a poll that saw a new
\* helper terminated, or by a failed poll, never by the number of polls; and
\* with the loop kept running it does not wait forever while the cluster
\* keeps reporting the new helper terminated
C16_NoTimeoutEventuallyDone ==
    /\ [][(pc = "poll" /\ pc' # "poll") =>
            \/ has_terminated' /\ NewHelperTerminal' /\ ClusterHelperTerminal
               /\ pc' = "remove_local"
            \/ PollFailed' /\ ~has_terminated']_vars
    /\ [](pc = "poll" => WatcherState = "WAITING")
    /\ []<>~(pc = "poll" /\ ClusterHelperTerminal)

\* still waiting after the largest number of polls followed, the new
\* helper still running
C16_Witness ==
    /\ pc = "poll" /\ polls = MaxPolls
    /\ WatcherState = "WAITING"
    /\ helpers # <<>> /\ ~ClusterHelperTerminal
    /\ pod_data.ephemeralContainerStatuses = helpers


\* ------------------------------------------------------------------------
\* Target and identity are fixed once resolved
\* ------------------------------------------------------------------------
\* C17: the namespace, the pod and container names, uid, gid and the set of
\* ephemeral containers found before the launch do not change once they are
\* resolved; a poll replaces the fetched description and nothing of these;
\* every command after the listing addresses the resolved namespace and pod,
\* and the helper and the transfer address the resolved container
C17_TargetAndIdentityFixed ==
    /\ [][/\ args' = args
          /\ kube_pod # NoName => kube_pod' = kube_pod
          /\ Resolved =>
                /\ container_name' = container_name
                /\ uid' = uid /\ gid' = gid
                /\ existing_ephemeral_containers' = existing_ephemeral_containers]_vars
    /\ [](\A i \in LaterCalls :
              /\ calls[i].ns = args.namespace
              /\ calls[i].pod = kube_pod
              /\ calls[i].cmd \in {"debug", "stat", "dd"} =>
                    calls[i].container = container_name)
    /\ [](Resolved =>
              existing_ephemeral_containers =
                  {world.desc.ephemeralContainers[j] :
                      j \in 1..Len(world.desc.ephemeralContainers)})

\* chunks are read from the pod the selector gave, after polls that fetched
\* a description with statuses the first one did not have
C17_Witness ==
    /\ args.selector # NoName /\ args.pod # NoName
    /\ args.strategy = "debug-container"
    /\ pod_data # world.desc
    /\ uid # None
    /\ existing_ephemeral_containers # {}
    /\ \E i \in CopyCalls : calls[i].cmd = "dd" /\ calls[i].pod = kube_pod


\* ------------------------------------------------------------------------
\* Errors while polling
\* ------------------------------------------------------------------------
\* the run ended on a poll whose fetch failed or could not be parsed
PollErrored == PollFailed /\ polls > 0

\* C18: a poll whose `kubectl get pod` fails or whose output is not JSON
\* reports the error and ends the run in the same step with exit code 1;
\* afterwards there is no further poll, the watcher is not DONE and nothing
\* of the transfer happens: no file removal, no size probe, no chunk read
C18_PollErrorEndsRun ==
    /\ [][(pc = "poll" /\ stderr' # stderr) =>
            /\ Exited' /\ exit_code' = 1 /\ PollErrored'
            /\ has_terminated' = has_terminated /\ pod_data' = pod_data]_vars
    /\ [](PollErrored =>
            /\ exit_code = 1
            /\ ~has_terminated /\ WatcherState = "WAITING"
            /\ CopyCalls = {} /\ dump_file = <<>>
            /\ local_file = world.latest_dump)
    /\ [][PollErrored => (polls' = polls /\ calls' = calls /\ pc' = pc)]_vars

\* the third poll returned garbage after two polls that saw the helper
\* running, with an older local file in place
C18_Witness ==
    /\ PollErrored /\ polls = 3
    /\ stderr[Len(stderr)] = "Error: Failed to parse pod data"
    /\ pod_data.ephemeralContainerStatuses # <<>>
    /\ world.latest_dump # NoFile


\* ------------------------------------------------------------------------
\* Dump directory
\* ------------------------------------------------------------------------
\* the directory part of a remote path: all but its last component
Dirname(path) == SubSeq(path, 1, Len(path) - 1)

\* the value of the dump_dir assignment, the third line of the script
ScriptDumpDir == SubSeq(script_content, 13, 12 + Len(dump_dir))

\* C19: dump_dir is /tmp/dumps for same-container and
\* /proc/<dump_pid>/root/tmp/dumps for debug-container, whatever else the
\* run was given; the script carries that same directory in its dump_dir
\* line, and the file probed and read is latest_dump in that directory
C19_DumpDirByStrategyAndPid ==
    /\ dump_dir # <<>> =>
          dump_dir = IF args.strategy = "debug-container"
                     THEN <<"/proc/", args.dump_pid, "/root/tmp/dumps">>
                     ELSE <<"/tmp/dumps">>
    /\ Composed =>
          /\ SubSeq(script_content, 11, 12) = <<"dump_dir", "=\"">>
          /\ ScriptDumpDir = dump_dir
          /\ SubSeq(script_content, 13 + Len(dump_dir), 14 + Len(dump_dir))
                = <<"\"", "\n">>
    /\ dump_file # <<>> => dump_file = dump_dir \o <<"/latest_dump">>
    /\ \A i \in CopyCalls :
          /\ Dirname(calls[i].path) = ScriptDumpDir
          /\ calls[i].path[Len(calls[i].path)] = "/latest_dump"

\* the size of /proc/42/root/tmp/dumps/latest_dump is asked after a
\* debug-container run on process 42
C19_Witness ==
    /\ args.strategy = "debug-container" /\ args.dump_pid = "42"
    /\ \E i \in CopyCalls :
          calls[i].path = <<"/proc/", "42", "/root/tmp/dumps", "/latest_dump">>


\* ------------------------------------------------------------------------
\* Offset and bytes written
\* ------------------------------------------------------------------------
\* the local file has been opened for writing by kubectl_chunked_cp
Opened == dump_file # <<>> /\ local_file # NoFile

\* C20: from the opening of the local file on, offset is the number of
\* bytes written to it; the copy ends without an error only with at least
\* total_size bytes written, and then with exactly total_size, so that the
\* size-mismatch warning is never printed
C20_OffsetIsBytesWritten ==
    /\ Opened => offset = Len(local_file)
    /\ (Opened /\ Exited /\ ~Fatal) =>
          /\ exit_code = 0
          /\ offset >= total_size
          /\ Len(local_file) = total_size
    /\ \A i \in 1..Len(calls) :
          calls[i].cmd = "dd" => calls[i].skip + calls[i].count <= total_size
    /\ ~Warned

\* a short read after the remote file was truncated: the offset moved on by
\* the one byte written, not by the two asked for
C20_Witness ==
    /\ pc = "chunk" /\ chunk_num >= 2
    /\ LastCall.cmd = "dd" /\ LastCall.rc = 0 /\ LastCall.count = 2
    /\ offset = LastCall.skip + 1
    /\ offset = Len(local_file) /\ offset < total_size


\* ------------------------------------------------------------------------
\* The local file before the transfer
\* ------------------------------------------------------------------------
\* the run has not come to the transfer: no launch command has returned 0
\* or, for debug-container, the new helper has not been seen terminated
BeforeTransfer ==
    \/ \A j \in LaunchCalls : calls[j].rc # 0
    \/ args.strategy = "debug-container" /\ ~has_terminated

\* C21: as long as the run has not come to the transfer, and so after every
\* fatal error of the earlier stages (usage, pod listing, description,
\* remote.sh, launch, poll), ./latest_dump is what it was before the run;
\* nothing of the transfer has been asked of the pod either
C21_LocalFileKeptBeforeTransfer ==
    /\ BeforeTransfer =>
          /\ local_file = world.latest_dump
          /\ CopyCalls = {} /\ dump_file = <<>>
    /\ pc \in {"resolve", "describe", "compose", "exec", "debug_prepare",
               "debug_launch", "poll", "remove_local"} =>
          local_file = world.latest_dump
    /\ (world.latest_dump # NoFile /\ local_file # world.latest_dump) =>
          /\ ~BeforeTransfer
          /\ dump_file # <<>>

\* a launch that returned a non-zero code ended the run; the file of the
\* earlier run is still there
C21_Witness ==
    /\ LaunchFailed /\ Exited /\ Fatal
    /\ BeforeTransfer
    /\ world.latest_dump # NoFile
    /\ local_file = <<StaleByte, StaleByte, StaleByte>>

====
